---- MODULE Spec2Model ----
(***************************************************************************)
(* A model of src/StainedGlass.py: the main loop (breathing update, input  *)
(* events, the ray pass over lights x channels x angles, compositing) and  *)
(* the vector helpers it calls.                                            *)
(*                                                                         *)
(* Number representation.  The program computes in Python floats; the      *)
(* model computes in fixed point, every operation rounded to the grid:     *)
(*   positions and distances   in 1/PosScale pixel                         *)
(*   directions, normals, refractive indices, index ratios, energy         *)
(*                             in 1/UnitScale                              *)
(*   segment parameters (t)    in 1/TScale                                 *)
(*   angles                    in 1/100 degree                             *)
(* All intermediate products stay below 2^31.                              *)
(***************************************************************************)
EXTENDS Integers, Sequences, FiniteSets, TLC

VARIABLES
    shards,              \* main: shards, a list of OrganicShard (fields as a record)
    current_draw,        \* main: current_draw, the outline being clicked
    lights,              \* main: lights, two {'pos', 'color'}
    selected_light_idx,  \* main: selected_light_idx (-1: none)
    running,             \* main: running
    ticks,               \* the last value pygame.time.get_ticks() returned (ms)
    pc,                  \* position in main's while loop
    light_idx,           \* for light in lights (1-based)
    chan,                \* for i, wave_mod in enumerate(WAVELENGTHS) (1-based)
    angle,               \* for angle in range(0, 360, step)
    bounce,              \* iterations of `for _ in range(MAX_BOUNCES)` done for this ray
    rx, ry, rdx, rdy,    \* the ray's position and direction
    path,                \* the ray's path
    light_surface,       \* what pygame.draw.lines drew this frame: colour and path
                         \* (and, as history, the light the path came from)
    frame,               \* number of frames composited so far
    nevents,             \* number of input events handled so far
    hits,                \* history: per shard, ray hits since the ray pass began
    energy_at_pass,      \* history: per shard, energy when the ray pass began
    cast_pos,            \* history: the light's position when the current ray was cast
    cast_dir,            \* history: the direction the current ray was cast in
    args,                \* a helper called on its own: its arguments
    result,              \* a helper called on its own: what it returned
    grid,                \* CrystalLoom: self.grid, the state of every cell
    NUM_STATES,          \* CrystalLoom: the global NUM_STATES
    THRESHOLD,           \* CrystalLoom: the global THRESHOLD
    population,          \* LightReef: main's population, as the number of frozen
                         \* and of active agents in the list
    nodes,               \* ethics_sim: self.nodes, a list of Node (fields as a record)
    dead_count,          \* ethics_sim: self.dead_count
    stability,           \* ethics_sim: self.stability
    time_flux,           \* ethics_sim: self.time_flux, in steps of 0.05
    ghost_pos,           \* ethics_sim: self.ghost_pos
    total_noise,         \* ethics_sim: run's total_noise
    node_idx             \* ethics_sim: `for n in self.nodes` (1-based)

vars == <<shards, current_draw, lights, selected_light_idx, running, ticks, pc,
          light_idx, chan, angle, bounce, rx, ry, rdx, rdy, path, light_surface,
          frame, nevents, hits, energy_at_pass, cast_pos, cast_dir, args, result,
          grid, NUM_STATES, THRESHOLD, population, nodes, dead_count, stability,
          time_flux, ghost_pos, total_noise, node_idx>>

loom_vars == <<grid, NUM_STATES, THRESHOLD>>

reef_vars == <<population>>

omelas_vars == <<nodes, dead_count, stability, time_flux, ghost_pos, total_noise, node_idx>>

\* the state of the programs other than StainedGlass
other_programs == <<loom_vars, reef_vars, omelas_vars>>

\* CrystalLoom is not running
LoomIdle ==
    /\ grid = <<>>
    /\ NUM_STATES = 0
    /\ THRESHOLD = 0

\* LightReef is not running
ReefIdle == population = <<>>

\* ethics_sim is not running
OmelasIdle ==
    /\ nodes = <<>>
    /\ dead_count = 0
    /\ stability = 0
    /\ time_flux = 0
    /\ ghost_pos = <<>>
    /\ total_noise = 0
    /\ node_idx = 0

\* only StainedGlass, or one of its helpers, is running
OtherProgramsIdle == LoomIdle /\ ReefIdle /\ OmelasIdle

----------------------------------------------------------------------------
(* Fixed point *)

PosScale == 10
UnitScale == 1000
TScale == UnitScale * UnitScale

Abs(a) == IF a < 0 THEN -a ELSE a
Max(a, b) == IF a >= b THEN a ELSE b
Min(a, b) == IF a <= b THEN a ELSE b

\* a / b rounded to the nearest integer (b > 0)
RDiv(a, b) == (2 * a + b) \div (2 * b)

\* bisection; the halved interval b is bound by a set constructor so that it is
\* computed once
RECURSIVE SqrtIter(_, _, _)
SqrtIter(n, lo, hi) ==
    IF lo >= hi THEN lo
    ELSE CHOOSE r \in {SqrtIter(n, b[1], b[2]) :
                          b \in {LET mid == (lo + hi + 1) \div 2
                                 IN IF mid * mid <= n THEN <<mid, hi>> ELSE <<lo, mid - 1>>}} :
             TRUE

\* math.sqrt on integers: the floor of the square root of n (0 <= n < 2^30)
ISqrt(n) == SqrtIter(n, 0, Min(n, 32767))

\* floor(n * TScale / d) for 0 <= n < d, in three steps of 100 so that no
\* product overflows
FracDiv(n, d) ==
    LET q1 == (n * 100) \div d
        r1 == (n * 100) % d
        q2 == (r1 * 100) \div d
        r2 == (r1 * 100) % d
        q3 == (r2 * 100) \div d
    IN (q1 * 100 + q2) * 100 + q3

\* math.sin of an angle given in 1/100 degree, in 1/UnitScale
\* (Bhaskara's rational approximation on each half turn)
SinC(a) ==
    LET x == a % 36000
        h == x % 18000
        p == (h * (18000 - h)) \div 1000
        s == RDiv(4 * UnitScale * p, 405000 - p)
    IN IF x < 18000 THEN s ELSE -s

CosC(a) == SinC(a + 9000)

----------------------------------------------------------------------------
(* Configuration *)

WIDTH == 1200
HEIGHT == 900
WAVELENGTHS == <<1000, 1020, 1050>>
MAX_BOUNCES == 8
RAYS_PER_SOURCE == 150
\* the length of a ray segment, `2000` in main
FAR == 2000

----------------------------------------------------------------------------
(* Vector math helpers *)

\* Python's None, for a segment parameter
None == -1
\* Python's None, for a vector
NoVector == <<>>

InClosedUnit(n, d) == IF d > 0 THEN 0 <= n /\ n <= d ELSE d <= n /\ n <= 0

\* 0 < n/d < 1 for the quotient n/d of two grid values
InOpenUnit(n, d) == IF d > 0 THEN 0 < n /\ n < d ELSE d < n /\ n < 0

intersectParallelHit(p1, p2, p3, p4) ==
    LET x1 == p1[1]  y1 == p1[2]
        x2 == p2[1]  y2 == p2[2]
        x3 == p3[1]  y3 == p3[2]
        x4 == p4[1]  y4 == p4[2]
        denom == (y4 - y3) * (x2 - x1) - (x4 - x3) * (y2 - y1)
        uaN == (x4 - x3) * (y1 - y3) - (y4 - y3) * (x1 - x3)
        ubN == (x2 - x1) * (y1 - y3) - (y2 - y1) * (x1 - x3)
    IN IF denom = 0 THEN 1
       ELSE IF InOpenUnit(uaN, denom) /\ InOpenUnit(ubN, denom)
            THEN Max(1, FracDiv(Abs(uaN), Abs(denom)))
            ELSE None

\* ua is returned on the 1/TScale grid; the quotient of two positive floats is
\* positive, so a parameter below the grid's resolution is returned as the
\* smallest positive grid value
intersect(p1, p2, p3, p4) ==
    LET x1 == p1[1]  y1 == p1[2]
        x2 == p2[1]  y2 == p2[2]
        x3 == p3[1]  y3 == p3[2]
        x4 == p4[1]  y4 == p4[2]
        denom == (y4 - y3) * (x2 - x1) - (x4 - x3) * (y2 - y1)
        uaN == (x4 - x3) * (y1 - y3) - (y4 - y3) * (x1 - x3)
        ubN == (x2 - x1) * (y1 - y3) - (y2 - y1) * (x1 - x3)
    IN IF denom = 0 THEN None
       ELSE IF InOpenUnit(uaN, denom) /\ InOpenUnit(ubN, denom)
            THEN Max(1, FracDiv(Abs(uaN), Abs(denom)))
            ELSE None

get_normal(p1, p2) ==
    LET dx == p2[1] - p1[1]
        dy == p2[2] - p1[2]
    IN <<-dy, dx>>

normalize(v) ==
    LET sq == v[1] * v[1] + v[2] * v[2]
        l10 == ISqrt(sq * 100)
    IN IF sq = 0 THEN <<0, UnitScale>>
       ELSE <<RDiv(v[1] * UnitScale * 10, l10), RDiv(v[2] * UnitScale * 10, l10)>>

reflectHalf(d, n) ==
    LET dot == RDiv(d[1] * n[1] + d[2] * n[2], UnitScale)
    IN <<d[1] - RDiv(dot * n[1], UnitScale), d[2] - RDiv(dot * n[2], UnitScale)>>

reflect(d, n) ==
    LET dot == RDiv(d[1] * n[1] + d[2] * n[2], UnitScale)
    IN <<d[1] - RDiv(2 * dot * n[1], UnitScale), d[2] - RDiv(2 * dot * n[2], UnitScale)>>

refractNoSquare(d, n, ior_ratio) ==
    LET dot == -RDiv(d[1] * n[1] + d[2] * n[2], UnitScale)
        term == UnitScale - RDiv(ior_ratio * (UnitScale - RDiv(dot * dot, UnitScale)), UnitScale)
        root == ISqrt(term * UnitScale)
        k == RDiv(ior_ratio * dot, UnitScale) - root
    IN IF term < 0 THEN NoVector
       ELSE <<RDiv(ior_ratio * d[1] + k * n[1], UnitScale),
              RDiv(ior_ratio * d[2] + k * n[2], UnitScale)>>

refract(d, n, ior_ratio) ==
    LET dot == -RDiv(d[1] * n[1] + d[2] * n[2], UnitScale)
        r2 == RDiv(ior_ratio * ior_ratio, UnitScale)
        term == UnitScale - RDiv(r2 * (UnitScale - RDiv(dot * dot, UnitScale)), UnitScale)
        root == ISqrt(term * UnitScale)
        k == RDiv(ior_ratio * dot, UnitScale) - root
    IN IF term < 0 THEN NoVector
       ELSE <<RDiv(ior_ratio * d[1] + k * n[1], UnitScale),
              RDiv(ior_ratio * d[2] + k * n[2], UnitScale)>>

dist_sq(p1, p2) == (p1[1] - p2[1]) * (p1[1] - p2[1]) + (p1[2] - p2[2]) * (p1[2] - p2[2])

----------------------------------------------------------------------------
(* Bounds of the model and the inputs it draws *)

\* frames the main loop runs
MaxFrames == 2
\* input events pygame.event.get() delivers over the whole run
MaxEvents == 4
\* rays of a fan in the model (the program's RAYS_PER_SOURCE is 150)
FanRays == 2

\* the values pygame.time.get_ticks() may return, in ms
ClockValues == {0, 3000}
\* event.pos of left clicks, right clicks and mouse motion, in pixels
ClickPoints == {<<380, 430>>, <<380, 470>>, <<440, 440>>}
GrabPoints == {<<410, 450>>, <<790, 450>>}
MotionPoints == {<<430, 450>>}
\* random.uniform(1.1, 2.4) and random.uniform(0.001, 0.005), the latter in 1/1000
BaseIors == {1100, 2400}
Volatilities == {5}

Pos(p) == <<p[1] * PosScale, p[2] * PosScale>>

----------------------------------------------------------------------------
(* OrganicShard *)

OrganicShardNoIor(points, base_ior, volatility) ==
    [points |-> points, base_ior |-> base_ior, volatility |-> volatility,
     energy |-> 0, current_ior |-> 0]

\* OrganicShard.__init__ (hue and saturation are display only and left out)
OrganicShard(points, base_ior, volatility) ==
    [points |-> points, base_ior |-> base_ior, volatility |-> volatility,
     energy |-> 0, current_ior |-> base_ior]

updateHeats(shard, t) ==
    LET drift == RDiv(SinC((t * shard.volatility * 573) \div 1000) * 50, UnitScale)
        energy == Max(0, shard.energy + 10)
        ior == shard.base_ior + drift + RDiv(energy, 10)
    IN [shard EXCEPT !.energy = energy, !.current_ior = Max(1010, ior)]

updateAbs(shard, t) ==
    LET drift == RDiv(SinC((t * shard.volatility * 573) \div 1000) * 50, UnitScale)
        energy == Abs(shard.energy - 10)
        ior == shard.base_ior + drift + RDiv(energy, 10)
    IN [shard EXCEPT !.energy = energy, !.current_ior = Max(1010, ior)]

\* OrganicShard.update, the clock reading t
update(shard, t) ==
    LET drift == RDiv(SinC((t * shard.volatility * 573) \div 1000) * 50, UnitScale)
        energy == Max(0, shard.energy - 10)
        ior == shard.base_ior + drift + RDiv(energy, 10)
    IN [shard EXCEPT !.energy = energy, !.current_ior = Max(1010, ior)]

\* pygame.time.get_ticks(): a value not below the last one read
ClockReads == {t \in ClockValues : t >= ticks}

----------------------------------------------------------------------------
(* main *)

base_channels == <<<<255, 0, 0>>, <<0, 255, 0>>, <<0, 0, 255>>>>

channel_color(i) == [k \in 1..3 |-> IF k = i THEN 255 ELSE 0]

AngleStepInverted(n) == n \div 360

\* range(0, 360, int(360/RAYS_PER_SOURCE)), for a fan of n rays
AngleStep(n) == 360 \div n

\* the loop variables before the first ray pass, and the history variables
NoRayYet ==
    /\ light_idx = 1
    /\ chan = 1
    /\ angle = 0
    /\ bounce = 0
    /\ rx = 0 /\ ry = 0 /\ rdx = 0 /\ rdy = 0
    /\ path = <<>>
    /\ light_surface = {}
    /\ frame = 0
    /\ nevents = 0
    /\ cast_pos = <<0, 0>>
    /\ cast_dir = <<0, 0>>

\* no helper is being called on its own
NoCall ==
    /\ args = <<>>
    /\ result = <<>>

\* main, up to `running = True`
MainStart ==
    /\ current_draw = <<>>
    /\ lights = << [pos |-> Pos(<<WIDTH \div 3, HEIGHT \div 2>>), color |-> <<0, 255, 255>>],
                   [pos |-> Pos(<<(2 * WIDTH) \div 3, HEIGHT \div 2>>), color |-> <<255, 0, 255>>] >>
    /\ selected_light_idx = -1
    /\ running = TRUE

Init ==
    /\ shards = <<>>
    /\ MainStart
    /\ ticks = 0
    /\ pc = "update"
    /\ NoRayYet
    /\ NoCall
    /\ OtherProgramsIdle
    /\ hits = <<>>
    /\ energy_at_pass = <<>>

ray_vars == <<light_idx, chan, angle, bounce, rx, ry, rdx, rdy, path, cast_pos, cast_dir>>
world_vars == <<shards, current_draw, lights, selected_light_idx, running>>

\* `for shard in shards: shard.update()`, at the top of the while loop; every
\* update reads the clock for itself
UpdateEnvironment ==
    /\ pc = "update"
    /\ running
    /\ frame < MaxFrames
    /\ \E ts \in [1..Len(shards) -> ClockReads] :
        /\ \A k \in 1..(Len(shards) - 1) : ts[k] <= ts[k + 1]
        /\ shards' = [k \in 1..Len(shards) |-> update(shards[k], ts[k])]
        /\ ticks' = IF Len(shards) = 0 THEN ticks ELSE ts[Len(shards)]
    /\ pc' = "events"
    /\ UNCHANGED <<other_programs, args, result, current_draw, lights, selected_light_idx, running, ray_vars,
                   light_surface, frame, nevents, hits, energy_at_pass>>

\* `while running` is false: pygame.quit()
Exit ==
    /\ pc = "update"
    /\ ~running
    /\ pc' = "done"
    /\ UNCHANGED <<other_programs, args, result, world_vars, ticks, ray_vars, light_surface, frame, nevents, hits,
                   energy_at_pass>>

EventTaken ==
    /\ pc = "events"
    /\ nevents < MaxEvents
    /\ nevents' = nevents + 1
    /\ UNCHANGED <<other_programs, args, result, ticks, pc, ray_vars, light_surface, frame, hits, energy_at_pass>>

Quit ==
    /\ EventTaken
    /\ running' = FALSE
    /\ UNCHANGED <<shards, current_draw, lights, selected_light_idx>>

LeftClick ==
    /\ EventTaken
    /\ \E p \in ClickPoints : current_draw' = Append(current_draw, Pos(p))
    /\ UNCHANGED <<shards, lights, selected_light_idx, running>>

RightClick ==
    /\ EventTaken
    /\ \E p \in GrabPoints :
        LET d0 == dist_sq(Pos(p), lights[1].pos)
            d1 == dist_sq(Pos(p), lights[2].pos)
        IN selected_light_idx' = IF d0 < d1 THEN 0 ELSE 1
    /\ UNCHANGED <<shards, current_draw, lights, running>>

RightRelease ==
    /\ EventTaken
    /\ selected_light_idx' = -1
    /\ UNCHANGED <<shards, current_draw, lights, running>>

MouseMotionOther ==
    /\ EventTaken
    /\ \E p \in MotionPoints :
        lights' = IF selected_light_idx # -1
                  THEN [lights EXCEPT ![2 - selected_light_idx].pos = Pos(p)]
                  ELSE lights
    /\ UNCHANGED <<shards, current_draw, selected_light_idx, running>>

MouseMotion ==
    /\ EventTaken
    /\ \E p \in MotionPoints :
        lights' = IF selected_light_idx # -1
                  THEN [lights EXCEPT ![selected_light_idx + 1].pos = Pos(p)]
                  ELSE lights
    /\ UNCHANGED <<shards, current_draw, selected_light_idx, running>>

KeyReturnTwoPoints ==
    /\ EventTaken
    /\ IF Len(current_draw) > 1
       THEN /\ \E b \in BaseIors, v \in Volatilities :
                   shards' = Append(shards, OrganicShard(current_draw, b, v))
            /\ current_draw' = <<>>
       ELSE UNCHANGED <<shards, current_draw>>
    /\ UNCHANGED <<lights, selected_light_idx, running>>

KeyReturn ==
    /\ EventTaken
    /\ IF Len(current_draw) > 2
       THEN /\ \E b \in BaseIors, v \in Volatilities :
                   shards' = Append(shards, OrganicShard(current_draw, b, v))
            /\ current_draw' = <<>>
       ELSE UNCHANGED <<shards, current_draw>>
    /\ UNCHANGED <<lights, selected_light_idx, running>>

KeySpaceDropsLast ==
    /\ EventTaken
    /\ shards' = SubSeq(shards, 1, Len(shards) - 1)
    /\ current_draw' = <<>>
    /\ UNCHANGED <<lights, selected_light_idx, running>>

KeySpace ==
    /\ EventTaken
    /\ shards' = <<>>
    /\ current_draw' = <<>>
    /\ UNCHANGED <<lights, selected_light_idx, running>>

HandleInputs ==
    \/ Quit
    \/ LeftClick
    \/ RightClick
    \/ RightRelease
    \/ MouseMotion
    \/ KeyReturn
    \/ KeySpace

\* the event queue is drained: `light_surface.fill((0,0,0))` and the ray pass begins
RenderBase ==
    /\ pc = "events"
    /\ light_surface' = {}
    /\ light_idx' = 1
    /\ chan' = 1
    /\ pc' = "channel"
    /\ hits' = [k \in 1..Len(shards) |-> 0]
    /\ energy_at_pass' = [k \in 1..Len(shards) |-> shards[k].energy]
    /\ UNCHANGED <<other_programs, args, result, world_vars, ticks, angle, bounce, rx, ry, rdx, rdy, path, cast_pos,
                   cast_dir, frame, nevents>>

\* the step to the next (light, channel) pair, or to compositing after the last
NextChannel ==
    IF chan < Len(WAVELENGTHS)
    THEN /\ chan' = chan + 1
         /\ UNCHANGED light_idx
         /\ pc' = "channel"
    ELSE IF light_idx < Len(lights)
    THEN /\ chan' = 1
         /\ light_idx' = light_idx + 1
         /\ pc' = "channel"
    ELSE /\ UNCHANGED <<chan, light_idx>>
         /\ pc' = "composite"

\* `if l_col[i] == 0: continue`
SkipChannel ==
    /\ pc = "channel"
    /\ lights[light_idx].color[chan] = 0
    /\ NextChannel
    /\ UNCHANGED <<other_programs, args, result, world_vars, ticks, angle, bounce, rx, ry, rdx, rdy, path, cast_pos,
                   cast_dir, light_surface, frame, nevents, hits, energy_at_pass>>

StartChannelNoSkip ==
    /\ pc = "channel"
    /\ angle' = 0
    /\ pc' = "ray"
    /\ UNCHANGED <<other_programs, args, result, world_vars, ticks, light_idx, chan, bounce, rx, ry, rdx, rdy, path,
                   cast_pos, cast_dir, light_surface, frame, nevents, hits, energy_at_pass>>

\* the channel is emitted: the angle loop begins
StartChannel ==
    /\ pc = "channel"
    /\ lights[light_idx].color[chan] # 0
    /\ angle' = 0
    /\ pc' = "ray"
    /\ UNCHANGED <<other_programs, args, result, world_vars, ticks, light_idx, chan, bounce, rx, ry, rdx, rdy, path,
                   cast_pos, cast_dir, light_surface, frame, nevents, hits, energy_at_pass>>

\* one ray is set up: its direction from the angle and the clock, its path
\* begun at the light
CastRay ==
    /\ pc = "ray"
    /\ \E t \in ClockReads :
        LET rad == angle * 100 + t
            dx == CosC(rad)
            dy == SinC(rad)
            lx == lights[light_idx].pos[1]
            ly == lights[light_idx].pos[2]
        IN /\ ticks' = t
           /\ rx' = lx /\ ry' = ly
           /\ rdx' = dx /\ rdy' = dy
           /\ path' = << <<lx, ly>> >>
           /\ cast_pos' = <<lx, ly>>
           /\ cast_dir' = <<dx, dy>>
    /\ bounce' = 0
    /\ pc' = "bounce"
    /\ UNCHANGED <<other_programs, args, result, world_vars, light_idx, chan, angle, light_surface, frame, nevents,
                   hits, energy_at_pass>>

FarPointSwapped(r, d) ==
    <<r[1] + RDiv(d[1] * FAR * PosScale, UnitScale),
      r[2] + RDiv(d[1] * FAR * PosScale, UnitScale)>>

\* `(rx + rdx * 2000, ry + rdy * 2000)`: the far end of the ray from r along d
FarPoint(r, d) ==
    <<r[1] + RDiv(d[1] * FAR * PosScale, UnitScale),
      r[2] + RDiv(d[2] * FAR * PosScale, UnitScale)>>

LoopContinuesOffByOne(b) == b <= MAX_BOUNCES

\* `for _ in range(MAX_BOUNCES)`: whether the loop runs again after b iterations
LoopContinues(b) == b < MAX_BOUNCES

ExtendPathRestart(p, point) == <<point>>

\* `path.append(point)`
ExtendPath(p, point) == Append(p, point)

\* `t * 2000`, in 1/PosScale pixel: the product of a float below 1 and 2000 is
\* below 2000
Distance(t) == Min(RDiv(t, TScale \div (FAR * PosScale)), FAR * PosScale - 1)

ScanEdgeLast(best, si, j, S, r, d) ==
    LET pts == S[si].points
        p1 == pts[j]
        p2 == pts[(j % Len(pts)) + 1]
        ray_end == FarPoint(r, d)
        t == intersect(r, ray_end, p1, p2)
    IN IF t # None /\ t # 0
       THEN [closest_t |-> Distance(t), hit_normal |-> normalize(get_normal(p1, p2)),
             hit_shard |-> si]
       ELSE best

\* the scan of one edge: `if t and t * 2000 < closest_t`
ScanEdge(best, si, j, S, r, d) ==
    LET pts == S[si].points
        p1 == pts[j]
        p2 == pts[(j % Len(pts)) + 1]
        ray_end == FarPoint(r, d)
        t == intersect(r, ray_end, p1, p2)
    IN IF t # None /\ t # 0 /\ Distance(t) < best.closest_t
       THEN [closest_t |-> Distance(t), hit_normal |-> normalize(get_normal(p1, p2)),
             hit_shard |-> si]
       ELSE best

RECURSIVE ScanFrom(_, _, _, _, _, _)
ScanFrom(best, si, j, S, r, d) ==
    IF si > Len(S) THEN best
    ELSE IF j > Len(S[si].points) THEN ScanFrom(best, si + 1, 1, S, r, d)
    ELSE ScanFrom(ScanEdge(best, si, j, S, r, d), si, j + 1, S, r, d)

\* "Find intersection": every edge of every shard, in order; hit_shard 0 is None
FindIntersection(S, r, d) ==
    ScanFrom([closest_t |-> FAR * PosScale, hit_normal |-> NoVector, hit_shard |-> 0],
             1, 1, S, r, d)

\* "Interaction Heat"
absorbOverwrite(energy) == Min(UnitScale, 5)

absorbUncapped(energy) == energy + 5

absorb(energy) == Min(UnitScale, energy + 5)

\* `entering = dot_prod < 0`
entering(d, hit_normal) == d[1] * hit_normal[1] + d[2] * hit_normal[2] < 0

normalRaw(d, hit_normal) == hit_normal

\* `normal = hit_normal`, negated `if not entering`
normal(d, hit_normal) ==
    IF ~entering(d, hit_normal) THEN <<-hit_normal[1], -hit_normal[2]>> ELSE hit_normal

\* `eff_ior = hit_shard.current_ior * wave_mod`
eff_ior(current_ior, wave_mod) == RDiv(current_ior * wave_mod, UnitScale)

etaSwapped(d, hit_normal, current_ior, wave_mod) ==
    IF entering(d, hit_normal)
    THEN eff_ior(current_ior, wave_mod)
    ELSE RDiv(UnitScale * UnitScale, eff_ior(current_ior, wave_mod))

\* `eta = 1.0 / eff_ior if entering else eff_ior / 1.0`
eta(d, hit_normal, current_ior, wave_mod) ==
    IF entering(d, hit_normal)
    THEN RDiv(UnitScale * UnitScale, eff_ior(current_ior, wave_mod))
    ELSE eff_ior(current_ior, wave_mod)

NewDirectionKeep(d, hit_normal, current_ior, wave_mod) ==
    LET new_dir == refract(d, normal(d, hit_normal), eta(d, hit_normal, current_ior, wave_mod))
    IN IF new_dir # NoVector THEN new_dir ELSE d

\* the direction after a hit: Snell's law with dispersion, or the reflection
NewDirection(d, hit_normal, current_ior, wave_mod) ==
    LET new_dir == refract(d, normal(d, hit_normal), eta(d, hit_normal, current_ior, wave_mod))
    IN IF new_dir # NoVector THEN new_dir ELSE reflect(d, normal(d, hit_normal))

Hit == FindIntersection(shards, <<rx, ry>>, <<rdx, rdy>>)

BounceHitLiveIor ==
    /\ pc = "bounce"
    /\ LoopContinues(bounce)
    /\ \E h \in {Hit} :
        /\ h.hit_shard # 0
        /\ \E nd \in {NewDirection(<<rdx, rdy>>, h.hit_normal,
                                    shards[h.hit_shard].current_ior, WAVELENGTHS[chan])} :
              LET nx == rx + RDiv(rdx * h.closest_t, UnitScale)
                  ny == ry + RDiv(rdy * h.closest_t, UnitScale)
              IN /\ rx' = nx /\ ry' = ny
                 /\ path' = ExtendPath(path, <<nx, ny>>)
                 /\ shards' = [shards EXCEPT ![h.hit_shard].energy = absorb(@),
                                          ![h.hit_shard].current_ior = @ + 1]
                 /\ hits' = [hits EXCEPT ![h.hit_shard] = @ + 1]
                 /\ rdx' = nd[1] /\ rdy' = nd[2]
    /\ bounce' = bounce + 1
    /\ pc' = IF LoopContinues(bounce + 1) THEN "bounce" ELSE "draw"
    /\ UNCHANGED <<other_programs, args, result, current_draw, lights, selected_light_idx, running, ticks, light_idx,
                   chan, angle, cast_pos, cast_dir, light_surface, frame, nevents,
                   energy_at_pass>>

\* an iteration of the bounce loop that finds a hit
BounceHit ==
    /\ pc = "bounce"
    /\ LoopContinues(bounce)
    /\ \E h \in {Hit} :
        /\ h.hit_shard # 0
        /\ \E nd \in {NewDirection(<<rdx, rdy>>, h.hit_normal,
                                    shards[h.hit_shard].current_ior, WAVELENGTHS[chan])} :
              LET nx == rx + RDiv(rdx * h.closest_t, UnitScale)
                  ny == ry + RDiv(rdy * h.closest_t, UnitScale)
              IN /\ rx' = nx /\ ry' = ny
                 /\ path' = ExtendPath(path, <<nx, ny>>)
                 /\ shards' = [shards EXCEPT ![h.hit_shard].energy = absorb(@)]
                 /\ hits' = [hits EXCEPT ![h.hit_shard] = @ + 1]
                 /\ rdx' = nd[1] /\ rdy' = nd[2]
    /\ bounce' = bounce + 1
    /\ pc' = IF LoopContinues(bounce + 1) THEN "bounce" ELSE "draw"
    /\ UNCHANGED <<other_programs, args, result, current_draw, lights, selected_light_idx, running, ticks, light_idx,
                   chan, angle, cast_pos, cast_dir, light_surface, frame, nevents,
                   energy_at_pass>>

\* an iteration of the bounce loop that finds none: the far point, and `break`
BounceEscape ==
    /\ pc = "bounce"
    /\ LoopContinues(bounce)
    /\ Hit.hit_shard = 0
    /\ path' = ExtendPath(path, FarPoint(<<rx, ry>>, <<rdx, rdy>>))
    /\ pc' = "draw"
    /\ UNCHANGED <<other_programs, args, result, world_vars, ticks, light_idx, chan, angle, bounce, rx, ry, rdx, rdy,
                   cast_pos, cast_dir, light_surface, frame, nevents, hits, energy_at_pass>>

\* `if len(path) > 1: pygame.draw.lines(...)`, and the next angle of the fan
DrawPath ==
    /\ pc = "draw"
    /\ light_surface' = IF Len(path) > 1
                        THEN light_surface \cup
                                 {[color |-> channel_color(chan), path |-> path,
                                   light |-> light_idx]}
                        ELSE light_surface
    /\ IF angle + AngleStep(FanRays) < 360
       THEN /\ angle' = angle + AngleStep(FanRays)
            /\ pc' = "ray"
            /\ UNCHANGED <<light_idx, chan>>
       ELSE /\ NextChannel
            /\ UNCHANGED angle
    /\ UNCHANGED <<other_programs, args, result, world_vars, ticks, bounce, rx, ry, rdx, rdy, path, cast_pos, cast_dir,
                   frame, nevents, hits, energy_at_pass>>

\* "5. Composite": the frame is shown, and the while loop starts over
Composite ==
    /\ pc = "composite"
    /\ frame' = frame + 1
    /\ pc' = "update"
    /\ UNCHANGED <<other_programs, args, result, world_vars, ticks, ray_vars, light_surface, nevents, hits,
                   energy_at_pass>>

Next ==
    \/ UpdateEnvironment
    \/ Exit
    \/ HandleInputs
    \/ RenderBase
    \/ SkipChannel
    \/ StartChannel
    \/ CastRay
    \/ BounceHit
    \/ BounceEscape
    \/ DrawPath
    \/ Composite

Spec == Init /\ [][Next]_vars

(* One ray pass on its own: the worlds a frame can hand to the pass (no     *)
(* shard, or a shard made in this frame's events around the first light;   *)
(* the first light where main put it, or dragged next to the shard), and   *)
(* the steps from the end of the event loop to the compositing step.       *)
(* The pass is straight-line Python: a step that can be taken is taken.    *)

OutlineB == <<Pos(<<500, 430>>), Pos(<<500, 470>>), Pos(<<560, 445>>)>>

PassWorlds ==
    LET A(b, v) == OrganicShard(<<Pos(<<380, 430>>), Pos(<<380, 470>>), Pos(<<440, 440>>)>>, b, v)
        B(v) == OrganicShard(OutlineB, 1100, v)
        D(b, v) == OrganicShard(<<Pos(<<380, 430>>), Pos(<<380, 430>>), Pos(<<380, 470>>),
                                   Pos(<<440, 440>>)>>, b, v)
    IN {<<>>} \cup {<<A(b, v)>> : b \in BaseIors, v \in Volatilities}
              \cup {<<D(b, v)>> : b \in BaseIors, v \in Volatilities}
              \cup {<<A(b, v), B(v)>> : b \in BaseIors, v \in Volatilities}
              \cup {<<B(v), A(b, v)>> : b \in BaseIors, v \in Volatilities}

PassInit ==
    /\ shards \in PassWorlds
    /\ current_draw = <<>>
    /\ \E p \in {<<WIDTH \div 3, HEIGHT \div 2>>} \cup MotionPoints :
          lights = << [pos |-> Pos(p), color |-> <<0, 255, 255>>],
                      [pos |-> Pos(<<(2 * WIDTH) \div 3, HEIGHT \div 2>>),
                       color |-> <<255, 0, 255>>] >>
    /\ selected_light_idx = -1
    /\ running = TRUE
    /\ ticks \in ClockValues
    /\ pc = "events"
    /\ light_idx = 1
    /\ chan = 1
    /\ angle = 0
    /\ bounce = 0
    /\ rx = 0 /\ ry = 0 /\ rdx = 0 /\ rdy = 0
    /\ path = <<>>
    /\ light_surface = {}
    /\ frame = 0
    /\ nevents = MaxEvents
    /\ cast_pos = <<0, 0>>
    /\ cast_dir = <<0, 0>>
    /\ NoCall
    /\ OtherProgramsIdle
    /\ hits = <<>>
    /\ energy_at_pass = <<>>

PassNext ==
    \/ RenderBase
    \/ SkipChannel
    \/ StartChannel
    \/ CastRay
    \/ BounceHit
    \/ BounceEscape
    \/ DrawPath

PassSpec == PassInit /\ [][PassNext]_vars /\ WF_vars(PassNext)

----------------------------------------------------------------------------
(* One shard on its own: what main does to a shard after creating it is a  *)
(* breathing update at the top of every frame and an energy increment for  *)
(* every ray hit of the frame's pass.                                      *)

\* ray hits on the shard between two breathing updates
MaxHits == 20

\* clock readings for the breathing update: no drift, and drift either way
BreathClockValues == {0, 3000, 9000}
ShardIors == {1100, 1500, 2400}
ShardVolatilities == {1, 5}
Outline == <<Pos(<<380, 430>>), Pos(<<380, 470>>), Pos(<<440, 440>>)>>

ShardInit ==
    /\ \E b \in ShardIors, v \in ShardVolatilities : shards = <<OrganicShard(Outline, b, v)>>
    /\ MainStart
    /\ ticks = 0
    /\ pc = "created"
    /\ NoRayYet
    /\ NoCall
    /\ OtherProgramsIdle
    /\ hits = <<0>>
    /\ energy_at_pass = <<0>>

\* `for shard in shards: shard.update()`
ShardBreathe ==
    /\ pc \in {"created", "absorbed", "breathed"}
    /\ \E t \in {c \in BreathClockValues : c >= ticks} :
        /\ ticks' = t
        /\ shards' = [k \in 1..Len(shards) |-> update(shards[k], t)]
    /\ pc' = "breathed"
    /\ hits' = [k \in 1..Len(shards) |-> 0]
    /\ energy_at_pass' = [k \in 1..Len(shards) |-> shards'[k].energy]
    /\ UNCHANGED <<other_programs, args, result, current_draw, lights, selected_light_idx, running, ray_vars,
                   light_surface, frame, nevents>>

\* `hit_shard.energy = min(1.0, hit_shard.energy + 0.005)`
ShardAbsorb ==
    /\ pc \in {"created", "absorbed", "breathed"}
    /\ hits[1] < MaxHits
    /\ hits' = [hits EXCEPT ![1] = @ + 1]
    /\ shards' = [shards EXCEPT ![1].energy = absorb(@)]
    /\ pc' = "absorbed"
    /\ UNCHANGED <<other_programs, args, result, current_draw, lights, selected_light_idx, running, ticks, ray_vars,
                   light_surface, frame, nevents, energy_at_pass>>

ShardNext ==
    \/ ShardBreathe
    \/ ShardAbsorb

ShardSpec == ShardInit /\ [][ShardNext]_vars

(* The clock frozen: a new shard that took n hits in its first ray pass,   *)
(* then only breathing updates that all read the same time.                *)

FrozenInit ==
    /\ \E b \in ShardIors, v \in ShardVolatilities, n \in 0..(10 * MaxHits) :
          /\ shards = <<[OrganicShard(Outline, b, v) EXCEPT !.energy = Min(UnitScale, 5 * n)]>>
          /\ hits = <<n>>
    /\ MainStart
    /\ ticks \in BreathClockValues
    /\ pc = "frozen"
    /\ NoRayYet
    /\ NoCall
    /\ OtherProgramsIdle
    /\ energy_at_pass = <<>>

\* `shard.update()` with get_ticks() returning what it returned before
FrozenBreathe ==
    /\ pc = "frozen"
    /\ shards' = [k \in 1..Len(shards) |-> update(shards[k], ticks)]
    /\ UNCHANGED <<other_programs, args, result, current_draw, lights, selected_light_idx, running, ticks, pc, ray_vars,
                   light_surface, frame, nevents, hits, energy_at_pass>>

FrozenSpec == FrozenInit /\ [][FrozenBreathe]_vars /\ WF_vars(FrozenBreathe)

----------------------------------------------------------------------------
(* The event loop on its own: a frame's events arrive in a world that the  *)
(* earlier frames left, with up to two shards and a draft under way.       *)

InputShards == {OrganicShard(o, b, v) : o \in {Outline, OutlineB}, b \in BaseIors, v \in Volatilities}

InputWorlds ==
    {<<>>} \cup {<<a>> : a \in InputShards} \cup {<<a, b>> : a \in InputShards, b \in InputShards}

InputInit ==
    /\ shards \in InputWorlds
    /\ current_draw \in {<<>>, <<Pos(<<380, 430>>), Pos(<<380, 470>>)>>}
    /\ lights = << [pos |-> Pos(<<WIDTH \div 3, HEIGHT \div 2>>), color |-> <<0, 255, 255>>],
                   [pos |-> Pos(<<(2 * WIDTH) \div 3, HEIGHT \div 2>>), color |-> <<255, 0, 255>>] >>
    /\ selected_light_idx = -1
    /\ running = TRUE
    /\ ticks = 0
    /\ pc = "events"
    /\ NoRayYet
    /\ NoCall
    /\ OtherProgramsIdle
    /\ hits = <<>>
    /\ energy_at_pass = <<>>

InputSpec == InputInit /\ [][HandleInputs]_vars

----------------------------------------------------------------------------
(* The vector helpers called on their own: the arguments are drawn from a  *)
(* bounded set, the one step is the call.                                  *)

\* main is not running while a helper is called on its own
MainIdle ==
    /\ shards = <<>>
    /\ MainStart
    /\ ticks = 0
    /\ NoRayYet
    /\ hits = <<>>
    /\ energy_at_pass = <<>>

\* segment end points: a grid on which segments cross, touch at an end point,
\* overlap, run parallel or miss each other
GridPoints == {<<x, y>> : x \in {0, 10, 20, 30}, y \in {0, 10, 20}}

IntersectInit ==
    /\ MainIdle
    /\ OtherProgramsIdle
    /\ pc = "call"
    /\ args \in GridPoints \X GridPoints \X GridPoints \X GridPoints
    /\ result = <<>>

CallIntersect ==
    /\ pc = "call"
    /\ result' = intersect(args[1], args[2], args[3], args[4])
    /\ pc' = "returned"
    /\ UNCHANGED <<other_programs, world_vars, ticks, ray_vars, light_surface, frame, nevents, hits,
                   energy_at_pass, args>>

IntersectSpec == IntersectInit /\ [][CallIntersect]_vars

\* unit vectors, as normalize returns them
UnitVectors == {normalize(<<100 * x, 100 * y>>) : x \in -3..3, y \in -3..3}

ReflectInit ==
    /\ MainIdle
    /\ OtherProgramsIdle
    /\ pc = "call"
    /\ args \in UnitVectors \X UnitVectors
    /\ result = <<>>

\* reflect(d, n)
CallReflect ==
    /\ pc = "call"
    /\ result' = reflect(args[1], args[2])
    /\ pc' = "returned"
    /\ UNCHANGED <<other_programs, world_vars, ticks, ray_vars, light_surface, frame, nevents, hits,
                   energy_at_pass, args>>

\* reflect(reflect(d, n), n)
CallReflectAgain ==
    /\ pc = "returned"
    /\ result' = reflect(result, args[2])
    /\ pc' = "again"
    /\ UNCHANGED <<other_programs, world_vars, ticks, ray_vars, light_surface, frame, nevents, hits,
                   energy_at_pass, args>>

ReflectSpec == ReflectInit /\ [][CallReflect \/ CallReflectAgain]_vars

\* index ratios: 1/eff_ior on entering and eff_ior on leaving, for indices
\* between 1.1 and 2.4 x 1.05
IndexRatios == {397, 417, 667, 909, 1100, 1500, 2400, 2520}

RefractInit ==
    /\ MainIdle
    /\ OtherProgramsIdle
    /\ pc = "call"
    /\ args \in UnitVectors \X UnitVectors \X IndexRatios
    /\ result = <<>>

\* refract(d, n, ior_ratio)
CallRefract ==
    /\ pc = "call"
    /\ result' = refract(args[1], args[2], args[3])
    /\ pc' = "returned"
    /\ UNCHANGED <<other_programs, world_vars, ticks, ray_vars, light_surface, frame, nevents, hits,
                   energy_at_pass, args>>

RefractSpec == RefractInit /\ [][CallRefract]_vars

----------------------------------------------------------------------------
(* The angle loop of one fan on its own, with the program's                *)
(* RAYS_PER_SOURCE: result collects the angles a ray is cast at.           *)

FanInit ==
    /\ MainIdle
    /\ OtherProgramsIdle
    /\ pc = "fan"
    /\ args = <<RAYS_PER_SOURCE>>
    /\ result = <<>>

\* one iteration of `for angle in range(0, 360, int(360/RAYS_PER_SOURCE))`
FanRay ==
    /\ pc = "fan"
    /\ angle < 360
    /\ result' = Append(result, angle)
    /\ angle' = angle + AngleStep(args[1])
    /\ UNCHANGED <<other_programs, world_vars, ticks, pc, light_idx, chan, bounce, rx, ry, rdx, rdy, path,
                   cast_pos, cast_dir, light_surface, frame, nevents, hits, energy_at_pass,
                   args>>

\* the range is exhausted
FanEnd ==
    /\ pc = "fan"
    /\ angle >= 360
    /\ pc' = "fan_done"
    /\ UNCHANGED <<other_programs, world_vars, ticks, ray_vars, light_surface, frame, nevents, hits,
                   energy_at_pass, args, result>>

FanSpec == FanInit /\ [][FanRay \/ FanEnd]_vars

----------------------------------------------------------------------------
(* CrystalLoom: the cyclic cellular automaton, on a small torus            *)

\* the grid of the model (the program's is COLS x ROWS = 200 x 150)
LoomCols == 2
LoomRows == 1

Cells == (0..(LoomCols - 1)) \X (0..(LoomRows - 1))

\* np.random.randint(0, n): the lowest, a middle and the highest value
randint(n) == {0, n \div 2, n - 1}

\* StainedGlass is not running, and no helper of it
GlassIdle ==
    /\ shards = <<>>
    /\ current_draw = <<>>
    /\ lights = <<>>
    /\ selected_light_idx = -1
    /\ ticks = 0
    /\ NoRayYet
    /\ NoCall
    /\ hits = <<>>
    /\ energy_at_pass = <<>>

glass_vars == <<shards, current_draw, lights, selected_light_idx, ticks, ray_vars,
                light_surface, frame, nevents, hits, energy_at_pass, args, result>>

\* CrystalLoom.__init__, and run up to `running = True`
LoomInit ==
    /\ GlassIdle
    /\ ReefIdle
    /\ OmelasIdle
    /\ NUM_STATES = 14
    /\ THRESHOLD = 3
    /\ grid \in [Cells -> randint(14)]
    /\ running = TRUE
    /\ pc = "loom_events"

LoomEvent ==
    /\ pc = "loom_events"
    /\ UNCHANGED <<glass_vars, reef_vars, omelas_vars, pc>>

LoomQuit ==
    /\ LoomEvent
    /\ running' = FALSE
    /\ UNCHANGED loom_vars

\* K_SPACE: "Reset to noise"
LoomKeySpace ==
    /\ LoomEvent
    /\ grid' \in [Cells -> randint(NUM_STATES)]
    /\ UNCHANGED <<NUM_STATES, THRESHOLD, running>>

\* K_UP
LoomKeyUp ==
    /\ LoomEvent
    /\ NUM_STATES' = Min(30, NUM_STATES + 1)
    /\ grid' = [c \in Cells |-> grid[c] % NUM_STATES']
    /\ UNCHANGED <<THRESHOLD, running>>

LoomKeyDownNoClamp ==
    /\ LoomEvent
    /\ NUM_STATES' = Max(3, NUM_STATES - 1)
    /\ UNCHANGED <<grid, THRESHOLD, running>>

\* K_DOWN
LoomKeyDown ==
    /\ LoomEvent
    /\ NUM_STATES' = Max(3, NUM_STATES - 1)
    /\ grid' = [c \in Cells |-> grid[c] % NUM_STATES']
    /\ UNCHANGED <<THRESHOLD, running>>

\* K_RIGHT
LoomKeyRight ==
    /\ LoomEvent
    /\ THRESHOLD' = Min(8, THRESHOLD + 1)
    /\ UNCHANGED <<grid, NUM_STATES, running>>

\* K_LEFT
LoomKeyLeft ==
    /\ LoomEvent
    /\ THRESHOLD' = Max(1, THRESHOLD - 1)
    /\ UNCHANGED <<grid, NUM_STATES, running>>

\* the events are done and the left button is down: inject_chaos, whose 10 x 10
\* splatter wraps round the whole of a grid this small
LoomInject ==
    /\ pc = "loom_events"
    /\ grid' \in [Cells -> randint(NUM_STATES)]
    /\ pc' = "loom_update"
    /\ UNCHANGED <<glass_vars, reef_vars, omelas_vars, NUM_STATES, THRESHOLD, running>>

\* the events are done and the left button is up
LoomNoInject ==
    /\ pc = "loom_events"
    /\ pc' = "loom_update"
    /\ UNCHANGED <<glass_vars, reef_vars, omelas_vars, loom_vars, running>>

\* np.roll(self.grid, (dx, dy), axis=(0, 1)) at the cell c
shifted(g, dx, dy, c) == g[<<(c[1] - dx) % LoomCols, (c[2] - dy) % LoomRows>>]

\* CrystalLoom.update_logic: the grid after one step
update_logic(g, n, th) ==
    LET next_state == [c \in Cells |-> (g[c] + 1) % n]
        neighbor_counts ==
            [c \in Cells |->
                Cardinality({d \in ({-1, 0, 1} \X {-1, 0, 1}) \ {<<0, 0>>} :
                                shifted(g, d[1], d[2], c) = next_state[c]})]
    IN [c \in Cells |-> IF neighbor_counts[c] >= th THEN next_state[c] ELSE g[c]]

\* self.update_logic(), self.draw(), and the while test
LoomUpdate ==
    /\ pc = "loom_update"
    /\ grid' = update_logic(grid, NUM_STATES, THRESHOLD)
    /\ pc' = IF running THEN "loom_events" ELSE "loom_done"
    /\ UNCHANGED <<glass_vars, reef_vars, omelas_vars, NUM_STATES, THRESHOLD, running>>

LoomNext ==
    \/ LoomQuit
    \/ LoomKeySpace
    \/ LoomKeyUp
    \/ LoomKeyDown
    \/ LoomKeyRight
    \/ LoomKeyLeft
    \/ LoomInject
    \/ LoomNoInject
    \/ LoomUpdate

LoomSpec == LoomInit /\ [][LoomNext]_vars

----------------------------------------------------------------------------
(* LightReef: the size of the population.  An agent's energy, position and   *)
(* DNA are not followed: whether it passes the energy tests of lines 104,   *)
(* 198 and 225 in a frame is a choice.                                      *)
POPULATION_CAP == 180

\* the population is followed up to this size
MaxPopulation == 190
\* how many agents the model lets reproduce, freeze and die in one frame
MaxBirths == 2
MaxFreezes == 1
MaxDeaths == 1

\* len(population)
PopLen(p) == p.frozen + p.active

\* main up to `running = True`: thirty seeds, none frozen
ReefInit ==
    /\ GlassIdle
    /\ LoomIdle
    /\ OmelasIdle
    /\ population = [frozen |-> 0, active |-> 30]
    /\ running = TRUE
    /\ pc = "reef_events"

ReefEvent ==
    /\ pc = "reef_events"
    /\ UNCHANGED <<glass_vars, loom_vars, omelas_vars, pc>>

ReefQuit ==
    /\ ReefEvent
    /\ running' = FALSE
    /\ UNCHANGED population

\* MOUSEBUTTONDOWN, button 1: five new agents
ReefLeftClick ==
    /\ ReefEvent
    /\ PopLen(population) + 5 <= MaxPopulation
    /\ population' = [population EXCEPT !.active = @ + 5]
    /\ UNCHANGED running

\* KEYDOWN: K_1, K_2, K_3 change the target spectrum and K_SPACE takes energy
\* from the agents that are not frozen; the list keeps its members
ReefKeyDown ==
    /\ ReefEvent
    /\ UNCHANGED <<population, running>>

\* the biological update of one frame: among the active agents b give birth
\* (line 198 tests the length the list had when the frame began), f freeze and
\* d end the frame without energy.  A parent keeps over 36 of energy and a
\* frozen agent has 100, so the dead are among the others.
ReefBiology ==
    /\ pc = "reef_events"
    /\ \E b \in 0..Min(MaxBirths, population.active),
          f \in 0..Min(MaxFreezes, population.active) :
         /\ b > 0 => PopLen(population) < POPULATION_CAP
         /\ PopLen(population) + b <= MaxPopulation
         /\ \E d \in 0..Min(MaxDeaths, population.active - Max(b, f)) :
              population' = [frozen |-> population.frozen + f,
                             active |-> population.active - f - d + b]
    /\ pc' = "reef_render"
    /\ UNCHANGED <<glass_vars, loom_vars, omelas_vars, running>>

\* rendering, clock.tick(60) and the while test
ReefRender ==
    /\ pc = "reef_render"
    /\ pc' = IF running THEN "reef_events" ELSE "reef_done"
    /\ UNCHANGED <<glass_vars, loom_vars, omelas_vars, population, running>>

ReefNext ==
    \/ ReefQuit
    \/ ReefLeftClick
    \/ ReefKeyDown
    \/ ReefBiology
    \/ ReefRender

ReefSpec == ReefInit /\ [][ReefNext]_vars

----------------------------------------------------------------------------
(* ethics_sim.  Positions are in 1/PosScale pixel; velocities, trauma,      *)
(* resilience, noise and stability are in 1/UnitScale.                      *)
OmelasWidth == 1000
OmelasHeight == 800
TRAUMA_THRESHOLD == 100

\* len(self.nodes); the program has POPULATION = 70
MaxNodes == 3
\* frames followed
MaxOmelasFrames == 2

\* where the i-th node starts: neighbours are 150 pixels apart
NodePoint(i) == Pos(<<100 + 150 * (i - 1), 100>>)
Velocities == {<<2000, 0>>, <<-1000, 1000>>}
Resiliences == {800, 1200}
\* Node.__init__ sets trauma to 0.0; 125.0 is over the threshold of every
\* resilience
Traumas == {0, 125000}
\* where the ghost can be in a frame: the centre, and on the first node
GhostPoints == {Pos(<<500, 400>>), NodePoint(1)}

\* Node.__init__, with the trauma given
Node(p, v, t, r) == [pos |-> p, vel |-> v, alive |-> TRUE, trauma |-> t, resilience |-> r]

\* np.linalg.norm
norm(v) == ISqrt(v[1] * v[1] + v[2] * v[2])

\* v * k for k in 1/UnitScale
scaled(v, k) == <<RDiv(v[1] * k, UnitScale), RDiv(v[2] * k, UnitScale)>>

\* BASE_FRICTION + math.sin(time_flux + self.pos[0]*0.01) * 0.01: the angle is
\* 50 * tf + pos[0] thousandths of a radian, 5.73 hundredths of a degree each
local_friction(tf, p) == 980 + RDiv(SinC(RDiv((50 * tf + p[1]) * 573, 100)) * 10, UnitScale)

\* Node.die
die(n) == [n EXCEPT !.alive = FALSE, !.vel = <<0, 0>>]

\* Node.update without the test of self.alive
updateAlive(n, tf, ghost, roll) ==
    LET soothed == dist_sq(n.pos, ghost) < (100 * PosScale) * (100 * PosScale)
        trauma1 == IF soothed THEN Max(0, n.trauma - 2000) ELSE n.trauma
        vel1 == IF soothed THEN scaled(n.vel, 950) ELSE n.vel
        pos1 == <<n.pos[1] + RDiv(vel1[1], UnitScale \div PosScale),
                  n.pos[2] + RDiv(vel1[2], UnitScale \div PosScale)>>
        vel2 == scaled(vel1, local_friction(tf, pos1))
        vel3 == <<IF pos1[1] < 0 \/ pos1[1] > OmelasWidth * PosScale THEN -vel2[1] ELSE vel2[1],
                  IF pos1[2] < 0 \/ pos1[2] > OmelasHeight * PosScale THEN -vel2[2] ELSE vel2[2]>>
        pos2 == <<Min(Max(pos1[1], 0), OmelasWidth * PosScale),
                  Min(Max(pos1[2], 0), OmelasHeight * PosScale)>>
        speed == norm(vel3)
        current_stress == RDiv(speed * n.resilience, UnitScale)
        trauma2 == Max(0, trauma1 + RDiv(current_stress, 10) - 500)
        snap_probability == trauma2 - TRAUMA_THRESHOLD * n.resilience
        moved == [n EXCEPT !.pos = pos2, !.vel = vel3, !.trauma = trauma2]
        did_die == snap_probability > 0 /\ roll
    IN [node |-> IF did_die THEN die(moved) ELSE moved,
        noise |-> current_stress,
        died |-> did_die]

\* Node.update: what it returns, and the node afterwards.  roll is whether
\* random.random() < 0.05
NodeUpdate(n, tf, ghost, roll) ==
    IF ~n.alive THEN [node |-> n, noise |-> 0, died |-> FALSE]
    ELSE updateAlive(n, tf, ghost, roll)

\* one node of the loop of lines 186-192 pushed away from the node that died
pushed(other, dead) ==
    LET d_vec == <<other.pos[1] - dead.pos[1], other.pos[2] - dead.pos[2]>>
        d_len == norm(d_vec)
    IN IF d_len < 200 * PosScale
       THEN [other EXCEPT !.vel = <<@[1] + RDiv(d_vec[1] * 8 * UnitScale, d_len + PosScale),
                                    @[2] + RDiv(d_vec[2] * 8 * UnitScale, d_len + PosScale)>>,
                          !.trauma = @ + 20 * UnitScale]
       ELSE other

panicAll(ns, i) ==
    [j \in 1..Len(ns) |-> IF j # i THEN pushed(ns[j], ns[i]) ELSE ns[j]]

\* lines 186-192: the neighbours of the node i that has just died
panic(ns, i) ==
    [j \in 1..Len(ns) |-> IF j # i /\ ns[j].alive THEN pushed(ns[j], ns[i]) ELSE ns[j]]

\* OmelasSystem.__init__ and run up to `running = True`, with nodes that carry
\* trauma already
OmelasInit ==
    /\ GlassIdle
    /\ LoomIdle
    /\ ReefIdle
    /\ nodes \in {ns \in [1..MaxNodes -> [pos : {NodePoint(i) : i \in 1..MaxNodes},
                                           vel : Velocities, alive : {TRUE},
                                           trauma : Traumas, resilience : Resiliences]] :
                     \A i \in 1..MaxNodes : ns[i].pos = NodePoint(i)}
    /\ stability = 100 * UnitScale
    /\ dead_count = 0
    /\ time_flux = 0
    /\ ghost_pos = Pos(<<500, 400>>)
    /\ total_noise = 0
    /\ node_idx = 0
    /\ running = TRUE
    /\ pc = "omelas_events"

\* QUIT
OmelasQuit ==
    /\ pc = "omelas_events"
    /\ running' = FALSE
    /\ UNCHANGED <<glass_vars, loom_vars, reef_vars, omelas_vars, pc>>

\* the frame up to the loop over the nodes: time_flux += 0.05, and the ghost
\* goes where the mouse is held or where update_ghost takes it
OmelasGhost ==
    /\ pc = "omelas_events"
    /\ time_flux < MaxOmelasFrames
    /\ time_flux' = time_flux + 1
    /\ ghost_pos' \in GhostPoints
    /\ total_noise' = 0
    /\ node_idx' = 1
    /\ pc' = "omelas_nodes"
    /\ UNCHANGED <<glass_vars, loom_vars, reef_vars, nodes, dead_count, stability, running>>

OmelasNode ==
    /\ pc = "omelas_nodes"
    /\ node_idx <= Len(nodes)
    /\ node_idx' = node_idx + 1
    /\ UNCHANGED <<glass_vars, loom_vars, reef_vars, stability, time_flux, ghost_pos,
                   running, pc>>

\* lines 173-177 for a node that is dead
OmelasNodeDead ==
    /\ OmelasNode
    /\ ~nodes[node_idx].alive
    /\ \E r \in {NodeUpdate(nodes[node_idx], time_flux, ghost_pos, TRUE)} :
         /\ ~r.died
         /\ nodes' = [nodes EXCEPT ![node_idx] = r.node]
         /\ total_noise' = total_noise + r.noise
    /\ UNCHANGED dead_count

\* lines 173-177 for a node that lives on
OmelasNodeLives ==
    /\ OmelasNode
    /\ nodes[node_idx].alive
    /\ \E roll \in BOOLEAN :
         \E r \in {NodeUpdate(nodes[node_idx], time_flux, ghost_pos, roll)} :
            /\ ~r.died
            /\ nodes' = [nodes EXCEPT ![node_idx] = r.node]
            /\ total_noise' = total_noise + r.noise
    /\ UNCHANGED dead_count

\* lines 173-192 for a node that dies
OmelasNodeDies ==
    /\ OmelasNode
    /\ \E roll \in BOOLEAN :
         \E r \in {NodeUpdate(nodes[node_idx], time_flux, ghost_pos, roll)} :
            /\ r.died
            /\ nodes' = panic([nodes EXCEPT ![node_idx] = r.node], node_idx)
            /\ total_noise' = total_noise + r.noise
    /\ dead_count' = dead_count + 1

\* the stability logic, the drawing and the while test
OmelasStability ==
    /\ pc = "omelas_nodes"
    /\ node_idx > Len(nodes)
    /\ stability' = Min(Max(stability - RDiv(total_noise, 100) + dead_count * 50, 0),
                        100 * UnitScale)
    /\ pc' = IF running THEN "omelas_events" ELSE "omelas_done"
    /\ UNCHANGED <<glass_vars, loom_vars, reef_vars, nodes, dead_count, time_flux,
                   ghost_pos, total_noise, node_idx, running>>

OmelasNext ==
    \/ OmelasQuit
    \/ OmelasGhost
    \/ OmelasNodeDead
    \/ OmelasNodeLives
    \/ OmelasNodeDies
    \/ OmelasStability

OmelasSpec == OmelasInit /\ [][OmelasNext]_vars

----------------------------------------------------------------------------
(* The claims *)

PassPcs == {"channel", "ray", "bounce", "draw", "composite"}

\* C1: a light whose colour is 0 in channel i casts no ray for channel i and so
\* draws no path in that channel's primary colour; every path drawn is tagged
\* with a colour that is 255 in exactly one channel and 0 in the other two.
C1_ZeroChannelCastsNothing ==
    /\ pc \in {"ray", "bounce", "draw"} => lights[light_idx].color[chan] # 0
    /\ \A e \in light_surface :
          /\ Cardinality({k \in 1..3 : e.color[k] = 255}) = 1
          /\ Cardinality({k \in 1..3 : e.color[k] = 0}) = 2
          /\ \A k \in 1..3 : lights[e.light].color[k] = 0 => e.color[k] = 0

C1_Witness ==
    /\ pc = "composite"
    /\ \E k \in 1..Len(shards) : hits[k] > 0
    /\ \E e \in light_surface : e.light = 1 /\ e.color = <<0, 255, 0>>
    /\ \E e \in light_surface : e.light = 1 /\ e.color = <<0, 0, 255>>
    /\ \E e \in light_surface : e.light = 2 /\ e.color = <<255, 0, 0>>

\* C2: no path has more than MAX_BOUNCES + 1 points, and a ray that found a hit
\* in each of its MAX_BOUNCES iterations ends with exactly MAX_BOUNCES + 1
\* points: the light and one point per hit, no escape point after the last.
C2_PathLength ==
    /\ Len(path) <= MAX_BOUNCES + 1
    /\ \A e \in light_surface : Len(e.path) <= MAX_BOUNCES + 1
    /\ pc = "bounce" => Len(path) = bounce + 1
    /\ (pc = "draw" /\ bounce = MAX_BOUNCES) => Len(path) = MAX_BOUNCES + 1
    /\ (pc = "draw" /\ bounce < MAX_BOUNCES) => Len(path) = bounce + 2

C2_Witness == pc = "draw" /\ bounce = MAX_BOUNCES /\ Len(path) = 9

\* C3: a path starts at the position the emitting light had when the ray was
\* cast, and an iteration of the bounce loop appends at most one point and
\* leaves the points already there as they are.
C3_PathGrows ==
    /\ [](pc \in {"bounce", "draw"} =>
             /\ path[1] = cast_pos
             /\ cast_pos = lights[light_idx].pos)
    /\ [][pc = "bounce" =>
             /\ Len(path') \in {Len(path), Len(path) + 1}
             /\ SubSeq(path', 1, Len(path)) = path]_vars

C3_Witness ==
    /\ pc = "draw"
    /\ Len(path) >= 4
    /\ path[1] = lights[light_idx].pos

\* C4: a ray that finds no hit in its first iteration (as every ray does when
\* there is no shard) ends at once with the two-point path of the light's
\* position and the point 2000 away along the direction it was cast in; no
\* shard changes and the direction stays as cast.
C4_EscapeAtOnce ==
    /\ [](pc = "bounce" /\ shards = <<>> => Hit.hit_shard = 0)
    /\ [][(pc = "bounce" /\ bounce = 0 /\ Hit.hit_shard = 0) =>
             /\ path' = <<lights[light_idx].pos,
                          <<cast_pos[1] + 20 * cast_dir[1], cast_pos[2] + 20 * cast_dir[2]>> >>
             /\ pc' = "draw"
             /\ shards' = shards
             /\ <<rdx', rdy'>> = cast_dir]_vars

C4_Witness ==
    /\ pc = "draw"
    /\ bounce = 0
    /\ Len(path) = 2
    /\ ticks > 0
    /\ \E k \in 1..Len(shards) : hits[k] > 0

\* C5: every ray's bounce loop ends within MAX_BOUNCES iterations, and a ray
\* pass once begun reaches the compositing step.
C5_RayPassCompletes ==
    /\ [](bounce <= MAX_BOUNCES)
    /\ (pc = "bounce") ~> (pc = "draw")
    /\ (pc = "channel") ~> (pc = "composite")

C5_Witness ==
    /\ pc = "composite"
    /\ \E e \in light_surface : Len(e.path) = MAX_BOUNCES + 1

\* C6 as stated: after N hits in a frame a shard's energy is min(1.0, N x 0.005).
C6_EnergyIsHitsAlone ==
    pc \in PassPcs =>
        \A k \in 1..Len(shards) : shards[k].energy = Min(UnitScale, 5 * hits[k])

\* C6, amended: after N hits in a frame a shard's energy is
\* min(1.0, e0 + N x 0.005), e0 being its energy when the frame's ray pass began,
\* and the next frame's breathing update decays exactly that value.
C6_EnergyAccumulates ==
    /\ [](pc \in PassPcs =>
             \A k \in 1..Len(shards) :
                 shards[k].energy = Min(UnitScale, energy_at_pass[k] + 5 * hits[k]))
    /\ [][(pc = "update" /\ pc' = "events") =>
             \A k \in 1..Len(shards) :
                 shards'[k].energy =
                     Max(0, Min(UnitScale, energy_at_pass[k] + 5 * hits[k]) - 10)]_vars

C6_Witness ==
    /\ pc = "composite"
    /\ \E k \in 1..Len(shards) : hits[k] >= 3 /\ energy_at_pass[k] > 0

\* C7: every shard's energy is within [0, 1.0], and 0 at creation.
C7_EnergyRange ==
    /\ \A k \in 1..Len(shards) : 0 <= shards[k].energy /\ shards[k].energy <= UnitScale
    /\ pc = "created" => \A k \in 1..Len(shards) : shards[k].energy = 0

C7_Witness ==
    /\ pc = "absorbed"
    /\ shards[1].energy = UnitScale
    /\ energy_at_pass[1] + 5 * hits[1] > UnitScale

\* C8: a breathing update never raises a shard's energy nor takes it below 0,
\* and lowers it when it is positive: by the step 0.01, or to 0 when less than
\* a step is left.
C8_UpdateDecays ==
    [][ShardBreathe =>
          \A k \in 1..Len(shards) :
              LET e == shards[k].energy
                  e2 == shards'[k].energy
              IN /\ 0 <= e2 /\ e2 <= e
                 /\ e > 0 => e2 < e
                 /\ e2 = IF e >= 10 THEN e - 10 ELSE 0]_vars

C8_Witness ==
    /\ pc = "breathed"
    /\ shards[1].energy = UnitScale - 10

\* C9: every shard's current_ior is above 1.0, from creation on, and at least
\* 1.01 after a breathing update.
C9_IorAboveOne ==
    \A k \in 1..Len(shards) :
        /\ shards[k].current_ior > UnitScale
        /\ pc = "created" => shards[k].current_ior = shards[k].base_ior
        /\ pc = "breathed" => shards[k].current_ior >= 1010

C9_Witness ==
    /\ pc = "breathed"
    /\ shards[1].base_ior = 1100
    /\ shards[1].current_ior < shards[1].base_ior

FixedPoint ==
    \A k \in 1..Len(shards) :
        /\ shards[k].energy = 0
        /\ update(shards[k], ticks) = shards[k]

\* C10: with the clock frozen and no hits, repeated breathing updates reach a
\* state with energy 0 that further updates leave as it is.
C10_FrozenClockConverges == <>[]FixedPoint

C10_Witness ==
    /\ pc = "frozen"
    /\ hits[1] >= 200
    /\ ticks > 0
    /\ FixedPoint
    /\ shards[1].current_ior # shards[1].base_ior

\* (a - o) x (b - o): positive, zero or negative as b lies to one side of the
\* line from o through a, on it, or to the other side
Cross(o, a, b) == (a[1] - o[1]) * (b[2] - o[2]) - (a[2] - o[2]) * (b[1] - o[1])

\* C11: intersect returns a value exactly when the segments cross at a point
\* strictly inside both (the ends of each lie strictly on opposite sides of the
\* other's line), and none for parallel, coincident, touching or missing
\* segments; the value is the parameter of the crossing along p1->p2, in (0,1).
C11_IntersectOpenCrossing ==
    pc = "returned" =>
        LET p1 == args[1]  p2 == args[2]
            p3 == args[3]  p4 == args[4]
            d1 == Cross(p3, p4, p1)
            d2 == Cross(p3, p4, p2)
            d3 == Cross(p1, p2, p3)
            d4 == Cross(p1, p2, p4)
            crossing == d1 * d2 < 0 /\ d3 * d4 < 0
        IN /\ (result # None) <=> crossing
           /\ d1 = d2 => result = None
           /\ result # None =>
                 /\ 0 < result /\ result < TScale
                 /\ Abs(result * (d1 - d2) - TScale * d1) <= Abs(d1 - d2)

C11_Witness ==
    /\ pc = "returned"
    /\ result # None
    /\ result < TScale \div 3
    /\ args[1] # <<0, 0>>

InsideOutline(q, pts) ==
    LET sides == {Cross(pts[j], pts[(j % Len(pts)) + 1], q) : j \in 1..Len(pts)}
    IN (\A x \in sides : x > 0) \/ (\A x \in sides : x < 0)

\* a bounce iteration is about to hit an edge of a single triangular shard with
\* the ray's direction anti-parallel to the edge's unit normal: perpendicular
\* incidence, classified as entering
PerpendicularEntry ==
    /\ pc = "bounce"
    /\ LoopContinues(bounce)
    /\ Len(shards) = 1
    /\ Len(shards[1].points) = 3
    /\ Hit.hit_shard # 0
    /\ <<rdx, rdy>> = <<-Hit.hit_normal[1], -Hit.hit_normal[2]>>

\* the hit refracts (the reflection would turn the ray round), the direction
\* stays what it was, and the shard's energy takes one increment
RefractsStraightOn ==
    /\ <<rdx', rdy'>> = <<rdx, rdy>>
    /\ <<rdx', rdy'>> # reflect(<<rdx, rdy>>, Hit.hit_normal)
    /\ hits'[1] = hits[1] + 1
    /\ shards'[1].energy = Min(UnitScale, shards[1].energy + 5)

\* the ray goes on inside the shard: the point 2 px further along it is interior
GoesOnInside ==
    InsideOutline(<<rx + RDiv(rdx * 20, UnitScale), ry + RDiv(rdy * 20, UnitScale)>>,
                  shards[1].points)

\* C14: a ray that strikes an edge of a single triangular shard anti-parallel
\* to the edge's unit normal (classified as entering) is refracted, not
\* reflected, keeps its direction, goes on into the shard's interior, and adds
\* one increment to the shard's energy.
C14_PerpendicularEnters ==
    [][PerpendicularEntry => (RefractsStraightOn /\ GoesOnInside')]_vars

\* the ray about to be cast is the first of its frame: the first light, its
\* first emitted channel, angle 0
FirstRayOfFrame ==
    /\ light_idx = 1
    /\ angle = 0
    /\ \A c \in 1..(chan - 1) : lights[1].color[c] = 0

\* C15: the time is supplied once per frame: a ray cast after another ray of the
\* same frame is rotated by the time value that ray was rotated by, so the rays
\* of a fan are the fixed step apart.
C15_OneTimePerFrame ==
    [][(pc = "ray" /\ pc' = "bounce" /\ ~FirstRayOfFrame) => ticks' = ticks]_vars

\* C16: every shard has at least three vertices; the RETURN key with fewer than
\* three points in the draft changes neither the shards nor the draft, and with
\* three or more it appends exactly one shard whose vertices are the draft's
\* points in click order, and empties the draft.
C16_FinalizeNeedsThree ==
    /\ [](\A k \in 1..Len(shards) : Len(shards[k].points) >= 3)
    /\ [][KeyReturn =>
            IF Len(current_draw) < 3
            THEN shards' = shards /\ current_draw' = current_draw
            ELSE /\ Len(shards') = Len(shards) + 1
                 /\ SubSeq(shards', 1, Len(shards)) = shards
                 /\ shards'[Len(shards')].points = current_draw
                 /\ current_draw' = <<>>]_vars

\* a shard finalized from three clicks that were not made in the order of
\* ClickPoints, the draft empty again
C16_Witness ==
    /\ Len(shards) = 1
    /\ shards[1].points = <<Pos(<<440, 440>>), Pos(<<380, 430>>), Pos(<<380, 470>>)>>
    /\ current_draw = <<>>

\* what a shard is for the collection: the fields that never change
Identity(S) == [k \in 1..Len(S) |-> <<S[k].points, S[k].base_ior, S[k].volatility>>]

\* C17: the shard collection changes only by the append of one shard (which
\* leaves the shards before it as and where they were) or by the reset that
\* empties it, and after a reset the draft is empty too; no shard is removed,
\* replaced or moved on its own.
C17_AppendOrReset ==
    [][\/ Identity(shards') = Identity(shards)
       \/ /\ Len(shards') = Len(shards) + 1
          /\ SubSeq(shards', 1, Len(shards)) = shards
       \/ /\ shards' = <<>>
          /\ current_draw' = <<>>]_vars

\* two shards were there, events have been handled, and a third was appended
\* behind them
C17_Witness ==
    /\ Len(shards) = 3
    /\ Identity(SubSeq(shards, 1, 2)) = Identity(<<OrganicShard(OutlineB, 2400, 5), OrganicShard(Outline, 1100, 5)>>)
    /\ nevents = MaxEvents

\* C18: there are always the same two lights with the same colours; a light
\* changes only in the event loop, only while a light is grabbed, and then only
\* the grabbed light's position changes: the ray pass and the shard updates never
\* change a light, and with no light grabbed none moves.
C18_OnlyGrabbedLightMoves ==
    /\ [](/\ Len(lights) = 2
          /\ lights[1].color = <<0, 255, 255>>
          /\ lights[2].color = <<255, 0, 255>>)
    /\ [][lights' # lights =>
            /\ pc = "events"
            /\ selected_light_idx # -1
            /\ \A k \in 1..2 : k # selected_light_idx + 1 => lights'[k] = lights[k]]_vars

\* the first light was grabbed and dragged, the second is where main put it
C18_Witness ==
    /\ selected_light_idx = 0
    /\ lights[1].pos = Pos(<<430, 450>>)
    /\ lights[2].pos = Pos(<<(2 * WIDTH) \div 3, HEIGHT \div 2>>)

\* what the tracer reads of the shards: the outlines and the refractive indices,
\* and no energy
Optics(S) == [k \in 1..Len(S) |-> [points |-> S[k].points, current_ior |-> S[k].current_ior]]

\* the path of one ray through the optics O, from r along d, for the channel's
\* wavelength factor, after b bounces that gave the path p
RECURSIVE TracePath(_, _, _, _, _, _)
TracePath(O, r, d, wave_mod, b, p) ==
    IF ~LoopContinues(b) THEN p
    ELSE LET h == FindIntersection(O, r, d)
             n == <<r[1] + RDiv(d[1] * h.closest_t, UnitScale),
                    r[2] + RDiv(d[2] * h.closest_t, UnitScale)>>
         IN IF h.hit_shard = 0 THEN Append(p, FarPoint(r, d))
            ELSE TracePath(O, n, NewDirection(d, h.hit_normal, O[h.hit_shard].current_ior, wave_mod),
                           wave_mod, b + 1, Append(p, n))

\* no step of the ray pass changes what the tracer reads of the shards
C19_OpticsFixedInPass ==
    [][(pc \in PassPcs) => (Optics(shards') = Optics(shards))]_vars

\* the path that is drawn is the path through the optics alone, from where and
\* in the direction the ray was cast
C19_PathFromOptics ==
    pc = "draw" => path = TracePath(Optics(shards), cast_pos, cast_dir, WAVELENGTHS[chan], 0, <<cast_pos>>)

\* C19: the path of a ray is the same whether or not other rays are cast in the
\* frame: no ray changes what the tracer reads of the shards, the path drawn is
\* the path through those optics from the light, and a ray cast after others
\* leaves in the direction its angle and the frame's time value give, the one
\* it would have left in without them.
C19_RaysIndependent ==
    /\ C19_OpticsFixedInPass
    /\ []C19_PathFromOptics
    /\ [][(pc = "ray" /\ pc' = "bounce" /\ ~FirstRayOfFrame) =>
            /\ cast_pos' = lights[light_idx].pos
            /\ cast_dir' = <<CosC(angle * 100 + ticks), SinC(angle * 100 + ticks)>>]_vars

\* the edges of the shards, as (shard, first vertex) index pairs
Edges == UNION {{<<si, j>> : j \in 1..Len(shards[si].points)} : si \in 1..Len(shards)}

EdgeStart(e) == shards[e[1]].points[e[2]]
EdgeEnd(e) == shards[e[1]].points[(e[2] % Len(shards[e[1]].points)) + 1]

\* the parameter at which the segment from the ray's position to its far
\* endpoint crosses the edge e, or None
Crossing(e) == intersect(<<rx, ry>>, FarPoint(<<rx, ry>>, <<rdx, rdy>>), EdgeStart(e), EdgeEnd(e))

CrossedEdges == {e \in Edges : Crossing(e) # None}

\* C20: at each bounce a hit is found exactly when the segment from the ray's
\* position to the far endpoint crosses at least one edge of a shard, and then
\* the recorded distance, normal and shard are those of a crossed edge that no
\* crossed edge of any shard is nearer than.
C20_NearestHit ==
    (pc = "bounce" /\ LoopContinues(bounce)) =>
        /\ Hit.hit_shard # 0 <=> CrossedEdges # {}
        /\ CrossedEdges # {} =>
              \E e \in CrossedEdges :
                  /\ Hit.hit_shard = e[1]
                  /\ Hit.closest_t = Distance(Crossing(e))
                  /\ Hit.hit_normal = normalize(get_normal(EdgeStart(e), EdgeEnd(e)))
                  /\ \A f \in CrossedEdges : Distance(Crossing(f)) >= Distance(Crossing(e))

\* a bounce with two shards where the segment crosses edges of both and the
\* nearest crossing is on the shard scanned last
C20_Witness ==
    /\ pc = "bounce"
    /\ LoopContinues(bounce)
    /\ Len(shards) = 2
    /\ Hit.hit_shard = 2
    /\ \E e \in CrossedEdges : e[1] = 1
    /\ \E e \in CrossedEdges : e[1] = 2 /\ Distance(Crossing(e)) > Hit.closest_t

\* the ray's direction and what the hit about to be handled gives the tracer:
\* the raw normal of the struck edge, the entering test, the normal turned
\* against the ray, the effective index and the index ratio
RayDir == <<rdx, rdy>>
HitDot == rdx * Hit.hit_normal[1] + rdy * Hit.hit_normal[2]
HitEntering == entering(RayDir, Hit.hit_normal)
OrientedNormal == normal(RayDir, Hit.hit_normal)
EffectiveIndex == eff_ior(shards[Hit.hit_shard].current_ior, WAVELENGTHS[chan])
IndexRatio == eta(RayDir, Hit.hit_normal, shards[Hit.hit_shard].current_ior, WAVELENGTHS[chan])
Refracted == refract(RayDir, OrientedNormal, IndexRatio)

\* a bounce iteration that finds a hit
AtHit == pc = "bounce" /\ LoopContinues(bounce) /\ Hit.hit_shard # 0

\* C21: at every hit the direction is replaced before the next iteration, by
\* what refract returns if it returns a direction and by the reflection on the
\* oriented normal if it returns none, and the loop goes on: the ray is neither
\* dropped nor left with its old direction.
C21_ReflectWhenRefractFails ==
    [][AtHit =>
         /\ <<rdx', rdy'>> = IF Refracted # NoVector THEN Refracted
                             ELSE reflect(RayDir, OrientedNormal)
         /\ Refracted = NoVector => <<rdx', rdy'>> # RayDir
         /\ bounce' = bounce + 1
         /\ pc' = IF LoopContinues(bounce + 1) THEN "bounce" ELSE "draw"
         /\ Len(path') = Len(path) + 1]_vars

\* a ray that has been through a hit and is at a hit where refract returns
\* no direction
C21_Witness ==
    /\ AtHit
    /\ bounce > 0
    /\ Refracted = NoVector

\* C22: at every hit the normal handed to refract and reflect points against
\* the incoming ray, direction . normal <= 0: it is the raw edge normal where
\* direction . raw normal < 0 and its negation otherwise.
C22_NormalAgainstRay ==
    AtHit =>
        /\ rdx * OrientedNormal[1] + rdy * OrientedNormal[2] <= 0
        /\ OrientedNormal = IF HitDot < 0 THEN Hit.hit_normal
                            ELSE <<-Hit.hit_normal[1], -Hit.hit_normal[2]>>

\* a hit, not the ray's first, on an edge whose raw normal points along the ray
C22_Witness ==
    /\ AtHit
    /\ bounce > 0
    /\ HitDot > 0
    /\ OrientedNormal # Hit.hit_normal

\* the struck shard is a triangle with an interior
StruckTriangle ==
    LET pts == shards[Hit.hit_shard].points
    IN Len(pts) = 3 /\ Cross(pts[1], pts[2], pts[3]) # 0

\* the raw normal of the struck edge points into the struck triangle: from
\* the hit point towards the centroid
RawNormalInward ==
    LET pts == shards[Hit.hit_shard].points
        hx == rx + RDiv(rdx * Hit.closest_t, UnitScale)
        hy == ry + RDiv(rdy * Hit.closest_t, UnitScale)
        cx == pts[1][1] + pts[2][1] + pts[3][1] - 3 * hx
        cy == pts[1][2] + pts[2][2] + pts[3][2] - 3 * hy
    IN cx * Hit.hit_normal[1] + cy * Hit.hit_normal[2] > 0

\* the ray reaches the struck edge from outside the triangle: it runs against
\* the edge's outward normal
FromOutside == IF RawNormalInward THEN HitDot > 0 ELSE HitDot < 0

\* C23: a ray that reaches an edge of a convex shard from outside is treated
\* as entering, with index ratio 1/effective index, and one that reaches it
\* from inside as exiting, with index ratio effective index, whichever way
\* round the outline was drawn.
C23_EnteringMatchesGeometry ==
    (AtHit /\ StruckTriangle) =>
        /\ HitEntering <=> FromOutside
        /\ IndexRatio = IF FromOutside THEN RDiv(UnitScale * UnitScale, EffectiveIndex)
                        ELSE EffectiveIndex

\* the same restricted to outlines whose raw normals point outward
C23_OutwardWindingOnly ==
    (AtHit /\ StruckTriangle /\ ~RawNormalInward) =>
        /\ HitEntering <=> FromOutside
        /\ IndexRatio = IF FromOutside THEN RDiv(UnitScale * UnitScale, EffectiveIndex)
                        ELSE EffectiveIndex

\* C24: refraction can fail only on exit: the effective index is above 1, so
\* at a hit classified as entering the index ratio is below 1 and refract
\* returns a direction; where refract returns none the hit is classified as
\* exiting and the index ratio is the effective index, above 1.
C24_RefractFailsOnlyOnExit ==
    AtHit =>
        /\ EffectiveIndex > UnitScale
        /\ HitEntering => (IndexRatio < UnitScale /\ Refracted # NoVector)
        /\ Refracted = NoVector => (~HitEntering /\ IndexRatio = EffectiveIndex)

\* a hit classified as entering that the ray meets at more than 60 degrees
\* from the normal
C24_Witness ==
    /\ AtHit
    /\ HitEntering
    /\ -HitDot < (UnitScale * UnitScale) \div 2
    /\ Refracted # NoVector

\* C25: a shard is changed by the breathing update, once in a frame and
\* before the frame's rays, and by the energy increment of a hit, which changes
\* the struck shard's energy and nothing else; so the refractive index stays
\* what the update made it throughout the ray pass, and the energy of a frame's
\* hits enters the index at the next frame's update.
C25_UpdateThenHits ==
    /\ [][(pc = "update" /\ pc' = "events") =>
            /\ Len(shards') = Len(shards)
            /\ \A k \in 1..Len(shards) :
                  \E t \in ClockValues : shards'[k] = update(shards[k], t)]_vars
    /\ [][(pc \in PassPcs /\ shards' # shards) =>
            /\ AtHit
            /\ shards' = [shards EXCEPT ![Hit.hit_shard].energy = Min(UnitScale, @ + 5)]]_vars
    /\ [][(Len(shards') = Len(shards) /\
            \E k \in 1..Len(shards) : shards'[k].current_ior # shards[k].current_ior) =>
            (pc = "update" /\ pc' = "events" /\ frame' = frame)]_vars
    /\ [][frame' # frame => (pc = "composite" /\ pc' = "update" /\ shards' = shards)]_vars

\* in the second frame's pass, a shard that kept energy from the first frame's
\* hits through the update and has been hit again
C25_Witness ==
    /\ frame = 1
    /\ pc \in PassPcs
    /\ \E k \in 1..Len(shards) :
          /\ energy_at_pass[k] > 0
          /\ hits[k] > 0
          /\ shards[k].energy = energy_at_pass[k] + 5 * hits[k]

\* the edges whose two ends are the same point
DegenerateEdges == {e \in Edges : EdgeStart(e) = EdgeEnd(e)}

\* C26: a zero-length vector is normalised to the unit default (0,1); an edge
\* of zero length is reported as not crossed and is never the edge of a hit,
\* and every ray traced past a shard with such an edge is traced to its end.
C26_DegenerateEdgeHarmless ==
    /\ [](normalize(<<0, 0>>) = <<0, UnitScale>>)
    /\ []((pc = "bounce" /\ LoopContinues(bounce)) =>
            /\ \A e \in DegenerateEdges : Crossing(e) = None
            /\ Hit.hit_shard # 0 =>
                  \E e \in Edges \ DegenerateEdges :
                      /\ e[1] = Hit.hit_shard
                      /\ Hit.closest_t = Distance(Crossing(e))
                      /\ Hit.hit_normal = normalize(get_normal(EdgeStart(e), EdgeEnd(e))))
    /\ (pc = "bounce" /\ DegenerateEdges # {}) ~> (pc = "draw")
    /\ (pc = "channel" /\ DegenerateEdges # {}) ~> (pc = "composite")

\* a ray traced through two hits on a shard that has a zero-length edge
C26_Witness ==
    /\ pc = "draw"
    /\ DegenerateEdges # {}
    /\ Len(path) >= 4

\* C27: a fan has exactly RAYS_PER_SOURCE rays, at angles one fixed step
\* apart all round the circle [0, 360).
C27_RaysPerFan ==
    pc = "fan_done" =>
        /\ Len(result) = RAYS_PER_SOURCE
        /\ \A i \in 1..Len(result) : 0 <= result[i] /\ result[i] < 360
        /\ \A i \in 1..(Len(result) - 1) : result[i + 1] - result[i] = result[2] - result[1]
        /\ result[1] + 360 - result[Len(result)] = result[2] - result[1]

\* what the loop does cast: 360 / int(360 / RAYS_PER_SOURCE) rays, rounded up
C27_RaysPerStep ==
    pc = "fan_done" =>
        /\ Len(result) = (360 + AngleStep(RAYS_PER_SOURCE) - 1) \div AngleStep(RAYS_PER_SOURCE)
        /\ Len(result) = 180

\* C28: in CrystalLoom every cell holds a state in 0..NUM_STATES-1, NUM_STATES
\* stays within 3..30 and THRESHOLD within 1..8, whatever steps, paint events,
\* resets and arrow keys came before; a lowered NUM_STATES leaves no cell at or
\* above it.
C28_LoomStatesInRange ==
    /\ NUM_STATES \in 3..30
    /\ THRESHOLD \in 1..8
    /\ \A c \in Cells : grid[c] \in 0..(NUM_STATES - 1)

\* NUM_STATES was lowered all the way and raised THRESHOLD is at its top, and
\* a cell holds the highest state left
C28_Witness ==
    /\ NUM_STATES = 3
    /\ THRESHOLD = 8
    /\ pc = "loom_events"
    /\ \E c \in Cells : grid[c] = 2

\* C29: in LightReef the population (frozen reef, active agents and newborns)
\* is at most POPULATION_CAP at the end of every frame, whatever the frames,
\* reproductions and left clicks were.
C29_PopulationCapped ==
    (pc = "reef_render") => PopLen(population) <= POPULATION_CAP

\* the nodes whose alive flag is false
Dead == {i \in 1..Len(nodes) : ~nodes[i].alive}

\* C30: in ethics_sim death is permanent and counted exactly once: dead_count
\* is always the number of nodes whose alive flag is false; a dead node never
\* lives again and no step changes its position, velocity or trauma, neither
\* its own update nor the panic and grief of a later death; and the update of
\* a dead node adds no noise.
C30_DeathPermanentCountedOnce ==
    /\ [](dead_count = Cardinality(Dead))
    /\ [][\A i \in Dead : nodes'[i] = nodes[i]]_vars
    /\ [][(pc = "omelas_nodes" /\ node_idx \in Dead) => (total_noise' = total_noise)]_vars

\* the second frame has updated node 1, which is dead, and another node has
\* been dead since the first frame: either node 1 was updated dead, or its
\* death passed over a dead neighbour
C30_Witness ==
    /\ pc = "omelas_nodes"
    /\ time_flux = 2
    /\ node_idx = 2
    /\ 1 \in Dead
    /\ 2 \in Dead
    /\ dead_count = 2

====
